---- MODULE Spec2Model ----
(***************************************************************************)
(* Model of the Fluid resource mapper (pkg/mapper, pkg/types, pkg/k8s).    *)
(*                                                                         *)
(* One mapping call reads a cluster through the k8s.Client interface and   *)
(* returns a ResourceGraph.  The cluster (what the Client returns) is the  *)
(* environment: it is built by the environment actions below, starting     *)
(* from an empty namespace or from one of the mock client's scenarios.     *)
(* The mapping itself is the operator MapFromDataset, a line by line       *)
(* translation of mapper.go, applied by the action of the same name.       *)
(*                                                                         *)
(* Conventions                                                             *)
(*   - a Go string that the code inspects (an object name, a role label)   *)
(*     is a sequence of fragments, "demo-master" = <<"demo", "-master">>;  *)
(*     len(), slicing and == are those of the sequence.  The empty string  *)
(*     is <<>>.  Strings the code only copies are TLA+ strings.            *)
(*   - a Go pointer or an optional value is a sequence of length 0 (nil)   *)
(*     or 1.                                                               *)
(***************************************************************************)
EXTENDS Integers, Sequences, FiniteSets, TLC

VARIABLES
    client,     \* what the k8s.Client returns: the cluster and its failures
    opts,       \* the Options passed to MapFromDataset
    now,        \* the wall clock, in seconds
    edits,      \* environment steps taken so far
    pc,         \* "idle", "returned" (MapFromDataset returned), "panic", "detected"
    graph,      \* the ResourceGraph of the last call
    err,        \* the error value of the last call (<<>> is nil)
    calls       \* the Client calls of the last call, in order

vars == <<client, opts, now, edits, pc, graph, err, calls>>

---------------------------------------------------------------------------
(* Bounds *)

\* Environment steps away from an initial cluster.
MaxEdits == 1
\* Client calls after which the context may be cancelled.
MaxCancelAfter == 3

---------------------------------------------------------------------------
(* pkg/types: enumerations *)

RuntimeTypeAlluxio == "alluxio"
RuntimeTypeJuiceFS == "juicefs"
RuntimeTypeThin    == "thin"
RuntimeTypeJindo   == "jindo"
\* The runtime types the model draws from: one full-stack variant from each
\* of the matrix's rows, and a second full-stack one.
RuntimeTypes == {RuntimeTypeAlluxio, RuntimeTypeJindo, RuntimeTypeJuiceFS, RuntimeTypeThin}

ComponentMaster  == "master"
ComponentWorker  == "worker"
ComponentFuse    == "fuse"
ComponentStorage == "storage"
ComponentConfig  == "config"

WarningLevelError   == "error"
WarningLevelWarning == "warning"
WarningLevelInfo    == "info"

PhaseReady    == "Ready"
PhaseNotReady == "NotReady"
PhasePending  == "Pending"
PhaseFailed   == "Failed"
PhaseUnknown  == "Unknown"
PhaseBound    == "Bound"
PhaseNotBound == "NotBound"

WarningCodes ==
    [ DatasetNotFound  |-> "DATASET_NOT_FOUND",
      RuntimeNotBound  |-> "RUNTIME_NOT_BOUND",
      MasterMissing    |-> "MASTER_MISSING",
      WorkerMissing    |-> "WORKER_MISSING",
      FuseMissing      |-> "FUSE_MISSING",
      PodsNotReady     |-> "PODS_NOT_READY",
      PVNotBound       |-> "PV_NOT_BOUND",
      OrphanedResource |-> "ORPHANED_RESOURCE" ]

---------------------------------------------------------------------------
(* Strings the code inspects *)

\* s[i:j] of Go, 0-based and half-open.
Slice(s, i, j) == SubSeq(s, i + 1, j)

findSubstring(s, substr) ==
    \E i \in 0 .. (Len(s) - Len(substr)) : Slice(s, i, i + Len(substr)) = substr

contains(s, substr) ==
    /\ Len(s) >= Len(substr)
    /\ \/ s = substr
       \/ (Len(s) > Len(substr) /\ Slice(s, Len(s) - Len(substr), Len(s)) = substr)
       \/ Slice(s, 0, Len(substr)) = substr
       \/ findSubstring(s, substr)

\* resources.go: the role label values expected for each component.
ComponentRoles ==
    [c \in {ComponentMaster, ComponentWorker, ComponentFuse} |->
        {<<t, c>> : t \in {"alluxio-", "jindo-", "juicefs-", "goosefs-", "vineyard-", "efc-"}}]

\* labels["role"]: the zero value when the key is absent.
determineComponent(labels) ==
    LET role == labels.role IN
    CASE contains(role, <<"master">>) -> ComponentMaster
      [] contains(role, <<"worker">>) -> ComponentWorker
      [] contains(role, <<"fuse">>)   -> ComponentFuse
      [] OTHER                        -> ""

\* Keeps the labels release, app, role and component; the model's objects
\* carry release and role only.
filterLabels(labels) == [release |-> labels.release, role |-> labels.role]

Minute == 60
Hour   == 3600
Day    == 86400

\* fmt.Sprintf("%d/%d", a, b)
SprintfRatio(a, b) == <<ToString(a), "/", ToString(b)>>

\* time.Since(t), truncated to the largest unit it fills.
formatAge(t) ==
    LET d == now - t IN
    CASE d < Minute -> <<ToString(d), "s">>
      [] d < Hour   -> <<ToString(d \div Minute), "m">>
      [] d < Day    -> <<ToString(d \div Hour), "h">>
      [] OTHER      -> <<ToString(d \div Day), "d">>

---------------------------------------------------------------------------
(* k8s.Client: the Query Interface *)

Namespace   == "default"
\* The Dataset name passed to MapFromDataset, and its release label.
DatasetName == <<"demo">>

\* The read calls of the Client interface.
ClientOps ==
    { "GetDataset", "GetRuntime", "ListStatefulSets", "ListDaemonSets", "ListPods",
      "ListPVCs", "GetPV", "ListConfigMaps", "ListSecrets" }

\* A call fails when its kind is unreachable, or when the context was
\* cancelled before it: n is the number of calls already made.
Fails(c, op, n) ==
    \/ op \in c.failing
    \/ (c.cancelAfter # <<>> /\ n >= c.cancelAfter[1])

Call(op, arg) == [op |-> op, arg |-> arg]

\* fmt.Sprintf("release=%s", name)
labelSelector(name) == <<"release=">> \o name

\* What a discovery step hands back: nodes, warnings, the calls it made, and
\* whether it dereferenced a nil pointer.
Found(resources, warnings, cs, panicked) ==
    [resources |-> resources, warnings |-> warnings, calls |-> cs, panic |-> panicked]

MappingWarning(level, code, message, resource, suggestion) ==
    [Level |-> level, Code |-> code, Message |-> message, Resource |-> resource,
     Suggestion |-> suggestion]

K8sResourceNode(kind, name, namespace, component, status, owner, labels, details, children) ==
    [Kind |-> kind, Name |-> name, Namespace |-> namespace, Component |-> component,
     Status |-> status, Owner |-> owner, Labels |-> labels, Details |-> details,
     Children |-> children]

ResourceStatus(phase, ready, message, age) ==
    [Phase |-> phase, Ready |-> ready, Message |-> message, Age |-> age]

NoLabels == [release |-> <<>>, role |-> <<>>]
NoDetails == [volumeName |-> <<>>, keys |-> <<>>, type |-> <<>>]

\* OwnerReferences[0] copied into an OwnerInfo, nil when there is none.
OwnerOf(refs) ==
    IF Len(refs) > 0 THEN <<[Kind |-> refs[1].kind, Name |-> refs[1].name]>> ELSE <<>>

\* The error a failing call returns.
ErrorOf(c, op, n) ==
    IF c.cancelAfter # <<>> /\ n >= c.cancelAfter[1]
    THEN <<"context canceled">>
    ELSE <<op, " failed">>

---------------------------------------------------------------------------
(* mapper.go: discovery *)

\* Ownership by reference name only, without the name-prefix fallback.
isOwned_ReferenceOnly(pod, workloadName) ==
    \E r \in 1 .. Len(pod.ownerReferences) : pod.ownerReferences[r].name = workloadName

\* The pod loop of discoverPodsForWorkload: ownership by reference name,
\* then by name prefix.
isOwned(pod, workloadName) ==
    \/ \E r \in 1 .. Len(pod.ownerReferences) : pod.ownerReferences[r].name = workloadName
    \/ (Len(pod.name) > Len(workloadName)
        /\ Slice(pod.name, 0, Len(workloadName)) = workloadName)

\* The pod node with every phase but Running reported as Unknown.
podNode_UnknownUnlessRunning(pod) ==
    K8sResourceNode("Pod", pod.name, Namespace, determineComponent(pod.labels),
                    ResourceStatus(IF pod.phase # "Running" THEN PhaseUnknown ELSE PhaseReady,
                                   <<>>, <<pod.phase>>, formatAge(pod.created)),
                    <<>>, filterLabels(pod.labels), NoDetails, <<>>)

podNode(pod) ==
    LET phase == IF pod.phase # "Running" THEN pod.phase ELSE PhaseReady IN
    K8sResourceNode("Pod", pod.name, Namespace, determineComponent(pod.labels),
                    ResourceStatus(phase, <<>>, <<pod.phase>>, formatAge(pod.created)),
                    <<>>, filterLabels(pod.labels), NoDetails, <<>>)

\* Lists every pod of the namespace (empty selector) and keeps the owned
\* ones; a failed listing yields nothing, and no warning.
discoverPodsForWorkload(c, n, workloadName) ==
    LET call == Call("ListPods", <<>>) IN
    IF Fails(c, "ListPods", n)
    THEN Found(<<>>, <<>>, <<call>>, FALSE)
    ELSE LET owned == SelectSeq(c.pods, LAMBDA pod : isOwned(pod, workloadName))
         IN Found([i \in 1 .. Len(owned) |-> podNode(owned[i])], <<>>, <<call>>, FALSE)

\* The node of sts with the readiness test written <= instead of <.
stsNode_LessOrEqual(sts, children) ==
    K8sResourceNode("StatefulSet", sts.name, Namespace, determineComponent(sts.labels),
                    ResourceStatus(IF sts.readyReplicas <= sts.replicas[1]
                                   THEN PhaseNotReady ELSE PhaseReady,
                                   SprintfRatio(sts.readyReplicas, sts.replicas[1]), <<>>,
                                   formatAge(sts.created)),
                    OwnerOf(sts.ownerReferences), filterLabels(sts.labels), NoDetails,
                    children)

\* One iteration of the StatefulSet loop: the node of sts, with its pods.
\* *sts.Spec.Replicas is dereferenced before anything else is read.
stsNode(sts, children) ==
    LET replicas == sts.replicas[1]
        phase    == IF sts.readyReplicas < replicas THEN PhaseNotReady ELSE PhaseReady
    IN K8sResourceNode("StatefulSet", sts.name, Namespace, determineComponent(sts.labels),
                       ResourceStatus(phase, SprintfRatio(sts.readyReplicas, replicas), <<>>,
                                      formatAge(sts.created)),
                       OwnerOf(sts.ownerReferences), filterLabels(sts.labels), NoDetails,
                       children)

\* The StatefulSet loop with the pods appended to the flat list after their
\* workload instead of being nested under it.
RECURSIVE stsLoop_Flatten(_, _, _, _, _, _)
stsLoop_Flatten(c, n, o, items, i, acc) ==
    IF i > Len(items) \/ acc.panic
    THEN acc
    ELSE IF items[i].replicas = <<>>
    THEN [acc EXCEPT !.panic = TRUE]
    ELSE stsLoop_Flatten(c, n, o, items, i + 1,
             Found(Append(acc.resources, stsNode(items[i], <<>>))
                       \o (IF o.IncludePods
                           THEN discoverPodsForWorkload(c, n + Len(acc.calls),
                                                        items[i].name).resources
                           ELSE <<>>),
                   acc.warnings,
                   acc.calls \o (IF o.IncludePods THEN <<Call("ListPods", <<>>)>> ELSE <<>>),
                   FALSE))

RECURSIVE stsLoop(_, _, _, _, _, _)
stsLoop(c, n, o, items, i, acc) ==
    IF i > Len(items) \/ acc.panic
    THEN acc
    ELSE IF items[i].replicas = <<>>
    THEN [acc EXCEPT !.panic = TRUE]
    ELSE LET pods == IF o.IncludePods
                     THEN discoverPodsForWorkload(c, n + Len(acc.calls), items[i].name)
                     ELSE Found(<<>>, <<>>, <<>>, FALSE)
         IN stsLoop(c, n, o, items, i + 1,
                    Found(Append(acc.resources, stsNode(items[i], pods.resources)),
                          acc.warnings, acc.calls \o pods.calls, FALSE))

discoverStatefulSets(c, n, selector, o) ==
    LET call == Call("ListStatefulSets", selector) IN
    IF Fails(c, "ListStatefulSets", n)
    THEN Found(<<>>,
               << MappingWarning(WarningLevelWarning, "STS_LIST_FAILED",
                                 <<"Failed to list StatefulSets: ">>
                                     \o ErrorOf(c, "ListStatefulSets", n),
                                 <<>>, <<>>) >>,
               <<call>>, FALSE)
    ELSE stsLoop(c, n, o, c.statefulSets, 1, Found(<<>>, <<>>, <<call>>, FALSE))

dsNode(ds) ==
    LET phase == IF ds.numberReady < ds.desiredNumberScheduled
                 THEN PhaseNotReady ELSE PhaseReady
    IN K8sResourceNode("DaemonSet", ds.name, Namespace, ComponentFuse,
                       ResourceStatus(phase,
                                      SprintfRatio(ds.numberReady, ds.desiredNumberScheduled),
                                      <<>>, formatAge(ds.created)),
                       OwnerOf(ds.ownerReferences), filterLabels(ds.labels), NoDetails, <<>>)

discoverDaemonSets(c, n, selector, o) ==
    LET call == Call("ListDaemonSets", selector) IN
    IF Fails(c, "ListDaemonSets", n)
    THEN Found(<<>>,
               << MappingWarning(WarningLevelWarning, "DS_LIST_FAILED",
                                 <<"Failed to list DaemonSets: ">>
                                     \o ErrorOf(c, "ListDaemonSets", n),
                                 <<>>, <<>>) >>,
               <<call>>, FALSE)
    ELSE Found([i \in 1 .. Len(c.daemonSets) |-> dsNode(c.daemonSets[i])],
               <<>>, <<call>>, FALSE)

pvcNode(pvc) ==
    LET phase == IF pvc.phase # "Bound" THEN PhaseNotBound ELSE PhaseBound IN
    K8sResourceNode("PersistentVolumeClaim", pvc.name, Namespace, ComponentStorage,
                    ResourceStatus(phase, <<>>, <<>>, formatAge(pvc.created)),
                    <<>>, NoLabels, [NoDetails EXCEPT !.volumeName = pvc.volumeName], <<>>)

pvNode(pv, pvc) ==
    K8sResourceNode("PersistentVolume", pv.name, "", ComponentStorage,
                    ResourceStatus(pv.phase, <<>>, <<>>, formatAge(pv.created)),
                    <<[Kind |-> "PersistentVolumeClaim", Name |-> pvc.name]>>,
                    NoLabels, NoDetails, <<>>)

\* client.GetPV(name): the volumes of that name, none when the call fails or
\* no such volume exists.
GetPV(c, n, name) ==
    IF Fails(c, "GetPV", n)
    THEN <<>>
    ELSE SelectSeq(c.persistentVolumes, LAMBDA pv : pv.name = name)

\* The claim loop fetching the volume by the claim's phase instead of by its
\* volume name.
RECURSIVE pvcLoop_ByPhase(_, _, _, _, _)
pvcLoop_ByPhase(c, n, items, i, acc) ==
    IF i > Len(items)
    THEN acc
    ELSE LET pvc     == items[i]
             fetch   == pvc.phase = "Bound"
             pv      == IF fetch THEN GetPV(c, n + Len(acc.calls), pvc.volumeName) ELSE <<>>
             nodes   == IF pv # <<>> THEN <<pvcNode(pvc), pvNode(pv[1], pvc)>>
                                     ELSE <<pvcNode(pvc)>>
             fetched == IF fetch THEN <<Call("GetPV", pvc.volumeName)>> ELSE <<>>
         IN pvcLoop_ByPhase(c, n, items, i + 1,
                Found(acc.resources \o nodes, acc.warnings, acc.calls \o fetched, FALSE))

RECURSIVE pvcLoop(_, _, _, _, _)
pvcLoop(c, n, items, i, acc) ==
    IF i > Len(items)
    THEN acc
    ELSE LET pvc     == items[i]
             fetch   == pvc.volumeName # <<>>
             pv      == IF fetch THEN GetPV(c, n + Len(acc.calls), pvc.volumeName) ELSE <<>>
             nodes   == IF pv # <<>> THEN <<pvcNode(pvc), pvNode(pv[1], pvc)>>
                                     ELSE <<pvcNode(pvc)>>
             fetched == IF fetch THEN <<Call("GetPV", pvc.volumeName)>> ELSE <<>>
         IN pvcLoop(c, n, items, i + 1,
                    Found(acc.resources \o nodes, acc.warnings, acc.calls \o fetched, FALSE))

discoverStorage(c, n, selector) ==
    LET call == Call("ListPVCs", selector) IN
    IF Fails(c, "ListPVCs", n)
    THEN Found(<<>>,
               << MappingWarning(WarningLevelWarning, "PVC_LIST_FAILED",
                                 <<"Failed to list PVCs: ">> \o ErrorOf(c, "ListPVCs", n),
                                 <<>>, <<>>) >>,
               <<call>>, FALSE)
    ELSE pvcLoop(c, n, c.persistentVolumeClaims, 1, Found(<<>>, <<>>, <<call>>, FALSE))

\* The ConfigMap node with its entries copied into the details.
cmNode_ExposesData(cm) ==
    K8sResourceNode("ConfigMap", cm.name, Namespace, ComponentConfig,
                    ResourceStatus(PhaseReady, <<>>, <<>>, formatAge(cm.created)),
                    <<>>, NoLabels, [NoDetails EXCEPT !.keys = cm.data], <<>>)

\* len(cm.Data) is all that is read of a ConfigMap's contents.
cmNode(cm) ==
    K8sResourceNode("ConfigMap", cm.name, Namespace, ComponentConfig,
                    ResourceStatus(PhaseReady, <<>>, <<>>, formatAge(cm.created)),
                    <<>>, NoLabels,
                    [NoDetails EXCEPT !.keys = <<ToString(Len(cm.data))>>], <<>>)

secretNode(secret) ==
    K8sResourceNode("Secret", secret.name, Namespace, ComponentConfig,
                    ResourceStatus(PhaseReady, <<>>, <<>>, formatAge(secret.created)),
                    <<>>, NoLabels,
                    [NoDetails EXCEPT !.keys = <<ToString(Len(secret.data))>>,
                                      !.type = <<secret.type>>], <<>>)

discoverConfigs(c, n, selector) ==
    LET cmCall     == Call("ListConfigMaps", selector)
        secretCall == Call("ListSecrets", selector)
        cmFails     == Fails(c, "ListConfigMaps", n)
        secretFails == Fails(c, "ListSecrets", n + 1)
        cmWarnings ==
            IF cmFails
            THEN << MappingWarning(WarningLevelWarning, "CM_LIST_FAILED",
                                   <<"Failed to list ConfigMaps: ">>
                                       \o ErrorOf(c, "ListConfigMaps", n),
                                   <<>>, <<>>) >>
            ELSE <<>>
        cmNodes ==
            IF cmFails THEN <<>>
            ELSE [i \in 1 .. Len(c.configMaps) |-> cmNode(c.configMaps[i])]
        secretWarnings ==
            IF secretFails
            THEN << MappingWarning(WarningLevelWarning, "SECRET_LIST_FAILED",
                                   <<"Failed to list Secrets: ">>
                                       \o ErrorOf(c, "ListSecrets", n + 1),
                                   <<>>, <<>>) >>
            ELSE <<>>
        secretNodes ==
            IF secretFails THEN <<>>
            ELSE [i \in 1 .. Len(c.secrets) |-> secretNode(c.secrets[i])]
    IN Found(cmNodes \o secretNodes, cmWarnings \o secretWarnings,
             <<cmCall, secretCall>>, FALSE)

\* The new nodes put in front of the gathered ones.
appendFound_Prepend(acc, more) ==
    Found(more.resources \o acc.resources, acc.warnings \o more.warnings,
          acc.calls \o more.calls, acc.panic \/ more.panic)

\* resources = append(resources, ...); warnings = append(warnings, ...)
appendFound(acc, more) ==
    Found(acc.resources \o more.resources, acc.warnings \o more.warnings,
          acc.calls \o more.calls, acc.panic \/ more.panic)

\* The steps of discoverResources after the StatefulSets, each given what
\* the steps before it gathered; n counts the calls made before discovery.
\* A nil dereference in the first step ends the process before the others.
\* The DaemonSet step given up once an earlier listing has failed.
thenDaemonSets_StopOnFailure(c, n, selector, o, acc) ==
    IF acc.panic \/ acc.warnings # <<>> THEN acc
    ELSE appendFound(acc, discoverDaemonSets(c, n + Len(acc.calls), selector, o))

thenDaemonSets(c, n, selector, o, acc) ==
    IF acc.panic THEN acc
    ELSE appendFound(acc, discoverDaemonSets(c, n + Len(acc.calls), selector, o))

\* The storage step run whatever the options say.
thenStorage_Ungated(c, n, selector, o, acc) ==
    IF acc.panic THEN acc
    ELSE appendFound(acc, discoverStorage(c, n + Len(acc.calls), selector))

thenStorage(c, n, selector, o, acc) ==
    IF acc.panic \/ ~o.IncludeStorage THEN acc
    ELSE appendFound(acc, discoverStorage(c, n + Len(acc.calls), selector))

thenConfigs(c, n, selector, o, acc) ==
    IF acc.panic \/ ~o.IncludeConfigs THEN acc
    ELSE appendFound(acc, discoverConfigs(c, n + Len(acc.calls), selector))

\* The runtime argument of the code is never read and is left out.
discoverResources(c, n, name, o) ==
    thenConfigs(c, n, labelSelector(name), o,
        thenStorage(c, n, labelSelector(name), o,
            thenDaemonSets(c, n, labelSelector(name), o,
                discoverStatefulSets(c, n, labelSelector(name), o))))

---------------------------------------------------------------------------
(* pkg/types: ResourceGraph methods *)

\* The loop of IsHealthy: false at the first error-level warning.
RECURSIVE healthyFrom(_, _)
healthyFrom(warnings, i) ==
    IF i > Len(warnings) THEN TRUE
    ELSE IF warnings[i].Level = WarningLevelError THEN FALSE
    ELSE healthyFrom(warnings, i + 1)

HasWarnings(g) == Len(g.Warnings) > 0

\* IsHealthy taken to mean "nothing to report".
IsHealthy_NoWarnings(g) == ~HasWarnings(g)

IsHealthy(g) == healthyFrom(g.Warnings, 1)

\* Top-level resources only: children are not visited.
GetResourcesByComponent(g, component) ==
    SelectSeq(g.Resources, LAMBDA r : r.Component = component)

---------------------------------------------------------------------------
(* runtime.go *)

\* The component matrix.  No function of the mapper calls it.
GetRuntimeComponents(runtimeType) ==
    CASE runtimeType \in {RuntimeTypeAlluxio, RuntimeTypeJindo, "goosefs", "vineyard", "efc"}
             -> [HasMaster |-> TRUE, HasWorker |-> TRUE, HasFuse |-> TRUE]
      [] runtimeType = RuntimeTypeJuiceFS
             -> [HasMaster |-> FALSE, HasWorker |-> TRUE, HasFuse |-> TRUE]
      [] runtimeType = RuntimeTypeThin
             -> [HasMaster |-> FALSE, HasWorker |-> FALSE, HasFuse |-> TRUE]
      [] OTHER
             -> [HasMaster |-> TRUE, HasWorker |-> TRUE, HasFuse |-> TRUE]

\* status.phase when it is a string, the zero value otherwise.
parseDataset(obj) ==
    [Name |-> obj.name, Namespace |-> obj.namespace,
     Phase |-> IF obj.phase # <<>> THEN obj.phase[1] ELSE ""]

\* The type of the first entry of status.runtimes, "" when there is none.
\* No function of the mapper calls it.
getRuntimeTypeFromDataset(obj) ==
    IF Len(obj.runtimes) = 0 THEN "" ELSE obj.runtimes[1]

parseRuntime(obj, runtimeType) ==
    [Name |-> obj.name, Namespace |-> obj.namespace, Type |-> runtimeType]

---------------------------------------------------------------------------
(* mapper.go: the pipeline *)

ZeroDataset == [Name |-> <<>>, Namespace |-> "", Phase |-> ""]

\* client.GetDataset then parseDataset; parseDataset never fails.
resolveDataset(c, n, name, namespace) ==
    IF Fails(c, "GetDataset", n)
    THEN [node |-> <<>>, err |-> <<ErrorOf(c, "GetDataset", n)>>]
    ELSE IF ~c.dataset.exists
    THEN [node |-> <<>>, err |-> <<<<"datasets ">> \o name \o <<" not found">>>>]
    ELSE [node |-> <<parseDataset([name |-> name, namespace |-> namespace,
                                   phase |-> c.dataset.phase,
                                   runtimes |-> c.dataset.runtimes])>>,
          err |-> <<>>]

\* The type asked for is the literal "alluxio", whatever the Dataset reports.
resolveRuntimeType == RuntimeTypeAlluxio

\* resolveRuntime without its phase check.
resolveRuntime_NoPhaseCheck(c, n, dataset) ==
    IF Fails(c, "GetRuntime", n) \/ resolveRuntimeType \notin c.runtimes
    THEN [node |-> <<>>, err |-> <<ErrorOf(c, "GetRuntime", n)>>,
          calls |-> <<Call("GetRuntime", <<resolveRuntimeType>> \o dataset.Name)>>]
    ELSE [node |-> <<parseRuntime([name |-> dataset.Name, namespace |-> dataset.Namespace],
                                  resolveRuntimeType)>>,
          err |-> <<>>,
          calls |-> <<Call("GetRuntime", <<resolveRuntimeType>> \o dataset.Name)>>]

resolveRuntime(c, n, dataset) ==
    IF dataset.Phase # "Bound"
    THEN [node |-> <<>>, err |-> <<<<"dataset is not bound (phase: ", dataset.Phase, ")">>>>,
          calls |-> <<>>]
    ELSE LET runtimeType == resolveRuntimeType
             call == Call("GetRuntime", <<runtimeType>> \o dataset.Name)
         IN IF Fails(c, "GetRuntime", n)
            THEN [node |-> <<>>, err |-> <<ErrorOf(c, "GetRuntime", n)>>, calls |-> <<call>>]
            ELSE IF runtimeType \notin c.runtimes
            THEN [node |-> <<>>, err |-> <<<<runtimeType, "runtimes not found">>>>,
                  calls |-> <<call>>]
            ELSE [node |-> <<parseRuntime([name |-> dataset.Name,
                                           namespace |-> dataset.Namespace], runtimeType)>>,
                  err |-> <<>>, calls |-> <<call>>]

\* The rules of detectWarnings, one operator each.
masterMissing(g, runtime) ==
    IF Len(GetResourcesByComponent(g, ComponentMaster)) = 0 /\ runtime # <<>>
    THEN << MappingWarning(WarningLevelError, WarningCodes.MasterMissing,
                           <<"No Master StatefulSet found">>, <<>>,
                           <<"Check if the runtime controller is running correctly">>) >>
    ELSE <<>>

workerMissing(g, runtime) ==
    IF Len(GetResourcesByComponent(g, ComponentWorker)) = 0 /\ runtime # <<>>
    THEN << MappingWarning(WarningLevelError, WarningCodes.WorkerMissing,
                           <<"No Worker StatefulSet found">>, <<>>,
                           <<"Check if the runtime controller is running correctly">>) >>
    ELSE <<>>

\* The fuse rule raised at level error.
fuseMissing_Error(g, runtime) ==
    IF Len(GetResourcesByComponent(g, ComponentFuse)) = 0 /\ runtime # <<>>
    THEN << MappingWarning(WarningLevelError, WarningCodes.FuseMissing,
                           <<"No Fuse DaemonSet found">>, <<>>,
                           <<"Fuse pods are created on-demand when data is accessed">>) >>
    ELSE <<>>

fuseMissing(g, runtime) ==
    IF Len(GetResourcesByComponent(g, ComponentFuse)) = 0 /\ runtime # <<>>
    THEN << MappingWarning(WarningLevelWarning, WarningCodes.FuseMissing,
                           <<"No Fuse DaemonSet found">>, <<>>,
                           <<"Fuse pods are created on-demand when data is accessed">>) >>
    ELSE <<>>

podsNotReady(res) ==
    MappingWarning(WarningLevelWarning, WarningCodes.PodsNotReady,
                   <<res.Kind, " ">> \o res.Name \o <<" is not ready (">>
                       \o res.Status.Ready \o <<")">>,
                   res.Name, <<>>)

\* The loop over graph.Resources: the flat list, not the children.
unhealthyResources(g) ==
    SelectSeq(g.Resources,
              LAMBDA res : res.Status.Phase = PhaseNotReady \/ res.Status.Phase = PhaseFailed)

notReady(g) ==
    [i \in 1 .. Len(unhealthyResources(g)) |-> podsNotReady(unhealthyResources(g)[i])]

\* detectWarnings with the three presence rules chained by else-if.
detectWarnings_ElseIf(g, runtime) ==
    (IF masterMissing(g, runtime) # <<>> THEN masterMissing(g, runtime)
     ELSE IF workerMissing(g, runtime) # <<>> THEN workerMissing(g, runtime)
     ELSE fuseMissing(g, runtime))
    \o notReady(g)

\* detectWarnings with the presence rules not guarded by runtime != nil.
detectWarnings_NilRuntime(g, runtime) ==
    masterMissing(g, <<runtime>>) \o workerMissing(g, <<runtime>>)
        \o fuseMissing(g, <<runtime>>) \o notReady(g)

\* The warnings in the order the code appends them.
detectWarnings(g, runtime) ==
    masterMissing(g, runtime) \o workerMissing(g, runtime) \o fuseMissing(g, runtime)
        \o notReady(g)

MapperVersion == "1.0.0"

Metadata(c) == [MappedAt |-> now, ClusterName |-> c.clusterName, Version |-> MapperVersion]

NewGraph(c) ==
    [Dataset |-> ZeroDataset, Runtime |-> <<>>, Resources |-> <<>>, Warnings |-> <<>>,
     Metadata |-> Metadata(c)]

Outcome(g, e, cs, panicked) == [graph |-> g, err |-> e, calls |-> cs, panic |-> panicked]

datasetNotFound(name, namespace, e) ==
    MappingWarning(WarningLevelError, WarningCodes.DatasetNotFound,
                   <<"Failed to get Dataset ", namespace, "/">> \o name \o <<": ">> \o e,
                   name, <<"Verify the Dataset name and namespace are correct">>)

runtimeNotBound(name, e) ==
    MappingWarning(WarningLevelWarning, WarningCodes.RuntimeNotBound,
                   <<"No Runtime bound to Dataset: ">> \o e,
                   name, <<"Create a Runtime CR with the same name as the Dataset">>)

\* Step 4 and the return: the detected warnings follow the others.
stepDetect(g, runtime, cs) ==
    Outcome([g EXCEPT !.Warnings = g.Warnings \o detectWarnings(g, runtime.node)],
            <<>>, cs, FALSE)

\* Step 3: the discovered resources and warnings enter the graph.
stepDiscover(c, g, runtime, found) ==
    IF found.panic
    THEN Outcome(NewGraph(c), <<>>, <<Call("GetDataset", g.Dataset.Name)>>
                                        \o runtime.calls \o found.calls, TRUE)
    ELSE stepDetect([g EXCEPT !.Resources = found.resources,
                              !.Warnings = g.Warnings \o found.warnings],
                    runtime,
                    <<Call("GetDataset", g.Dataset.Name)>> \o runtime.calls \o found.calls)

\* Step 2: the Runtime, or the RUNTIME_NOT_BOUND warning.
stepRuntime(c, name, o, g, runtime) ==
    stepDiscover(c,
                 IF runtime.err # <<>>
                 THEN [g EXCEPT !.Warnings = Append(g.Warnings,
                                                    runtimeNotBound(name, runtime.err[1]))]
                 ELSE [g EXCEPT !.Runtime = runtime.node],
                 runtime,
                 discoverResources(c, 1 + Len(runtime.calls), name, o))

\* Step 1 without the early return: the pipeline goes on with the zero
\* Dataset after recording DATASET_NOT_FOUND.
stepDataset_NoEarlyReturn(c, name, namespace, o, dataset) ==
    IF dataset.err # <<>>
    THEN stepRuntime(c, name, o,
                     [NewGraph(c) EXCEPT !.Warnings =
                         <<datasetNotFound(name, namespace, dataset.err[1])>>],
                     resolveRuntime(c, 1, ZeroDataset))
    ELSE stepRuntime(c, name, o, [NewGraph(c) EXCEPT !.Dataset = dataset.node[1]],
                     resolveRuntime(c, 1, dataset.node[1]))

\* Step 1: the Dataset, or the early return with DATASET_NOT_FOUND.
stepDataset(c, name, namespace, o, dataset) ==
    IF dataset.err # <<>>
    THEN Outcome([NewGraph(c) EXCEPT !.Warnings =
                     <<datasetNotFound(name, namespace, dataset.err[1])>>],
                 <<>>, <<Call("GetDataset", name)>>, FALSE)
    ELSE stepRuntime(c, name, o, [NewGraph(c) EXCEPT !.Dataset = dataset.node[1]],
                     resolveRuntime(c, 1, dataset.node[1]))

\* One call of MapFromDataset against client c: the graph and error it
\* returns, the Client calls it made, and whether it crashed instead.
MapFromDataset(c, name, namespace, o) ==
    stepDataset(c, name, namespace, o, resolveDataset(c, 0, name, namespace))

---------------------------------------------------------------------------
(* mock.go: the objects and scenarios of the mock client *)

RuntimeOwner == <<[kind |-> "AlluxioRuntime", name |-> DatasetName]>>

createMockStatefulSet(name, role, replicas, ready) ==
    [name |-> name, labels |-> [release |-> DatasetName, role |-> role],
     replicas |-> <<replicas>>, readyReplicas |-> ready,
     ownerReferences |-> RuntimeOwner, created |-> 0]

createMockDaemonSet(name, role, desired, ready) ==
    [name |-> name, labels |-> [release |-> DatasetName, role |-> role],
     desiredNumberScheduled |-> desired, numberReady |-> ready,
     ownerReferences |-> RuntimeOwner, created |-> 0]

\* Pods are created an hour before the call, everything else a day before.
createMockPod(name, role, phase) ==
    [name |-> name, labels |-> [release |-> DatasetName, role |-> role],
     phase |-> phase, ownerReferences |-> <<>>, created |-> Day - Hour]

createMockPVC(name) ==
    [name |-> name, phase |-> "Bound", volumeName |-> name \o <<"-pv">>, created |-> 0]

createMockPV(name) == [name |-> name, phase |-> "Bound", created |-> 0]

createMockConfigMap(name) ==
    [name |-> name, data |-> <<"alluxio.master.hostname=demo-data-master-0">>, created |-> 0]

createMockSecret(name) == [name |-> name, type |-> "Opaque", data |-> <<>>, created |-> 0]

MasterName == DatasetName \o <<"-master">>
WorkerName == DatasetName \o <<"-worker">>
FuseName   == DatasetName \o <<"-fuse">>

ScenarioHealthy        == "healthy"
ScenarioPartialReady   == "partial-ready"
ScenarioMissingRuntime == "missing-runtime"
ScenarioMissingFuse    == "missing-fuse"
ScenarioFailedPods     == "failed-pods"
MockScenarios ==
    { ScenarioHealthy, ScenarioPartialReady, ScenarioMissingRuntime, ScenarioMissingFuse,
      ScenarioFailedPods }

\* What the MockClient of a scenario answers, as a cluster.
MockClient(scenario) ==
    LET workerReady == CASE scenario = ScenarioPartialReady -> 1
                         [] scenario = ScenarioFailedPods   -> 0
                         [] OTHER                           -> 2
        workerPhase == IF scenario = ScenarioFailedPods THEN "Failed" ELSE "Running"
        worker1     == IF scenario = ScenarioPartialReady THEN "Pending" ELSE workerPhase
        fuseCount   == IF scenario = ScenarioPartialReady THEN 2 ELSE 3
        hashes      == <<"-a1b2c", "-d3e4f", "-g5h6i">>
        fusePods    == IF scenario = ScenarioMissingFuse THEN <<>>
                       ELSE [i \in 1 .. fuseCount |->
                               createMockPod(FuseName \o <<hashes[i]>>,
                                             <<"alluxio-", "fuse">>, "Running")]
    IN [ clusterName |-> "mock-cluster",
         dataset |-> [exists |-> TRUE,
                      phase |-> IF scenario = ScenarioMissingRuntime
                                THEN <<"NotBound">> ELSE <<"Bound">>,
                      runtimes |-> IF scenario = ScenarioMissingRuntime
                                   THEN <<>> ELSE <<RuntimeTypeAlluxio>>],
         runtimes |-> IF scenario = ScenarioMissingRuntime THEN {} ELSE {RuntimeTypeAlluxio},
         statefulSets |->
             << createMockStatefulSet(MasterName, <<"alluxio-", "master">>, 1, 1),
                createMockStatefulSet(WorkerName, <<"alluxio-", "worker">>, 2, workerReady) >>,
         daemonSets |->
             IF scenario = ScenarioMissingFuse THEN <<>>
             ELSE << createMockDaemonSet(FuseName, <<"alluxio-", "fuse">>, 3,
                                         IF scenario = ScenarioPartialReady THEN 2 ELSE 3) >>,
         pods |->
             << createMockPod(MasterName \o <<"-0">>, <<"alluxio-", "master">>, "Running"),
                createMockPod(WorkerName \o <<"-0">>, <<"alluxio-", "worker">>, workerPhase),
                createMockPod(WorkerName \o <<"-1">>, <<"alluxio-", "worker">>, worker1) >>
             \o fusePods,
         persistentVolumeClaims |-> << createMockPVC(DatasetName) >>,
         persistentVolumes |-> << createMockPV(DatasetName \o <<"-pv">>) >>,
         configMaps |->
             << createMockConfigMap(DatasetName \o <<"-config">>),
                createMockConfigMap(MasterName \o <<"-config">>),
                createMockConfigMap(WorkerName \o <<"-config">>) >>,
         secrets |-> << createMockSecret(DatasetName \o <<"-secret">>) >>,
         failing |-> {},
         cancelAfter |-> <<>> ]

\* A namespace holding a Bound Dataset and its Runtime and nothing else yet.
EmptyCluster ==
    [ MockClient(ScenarioHealthy) EXCEPT
        !.clusterName = "unknown",
        !.statefulSets = <<>>, !.daemonSets = <<>>, !.pods = <<>>,
        !.persistentVolumeClaims = <<>>, !.persistentVolumes = <<>>,
        !.configMaps = <<>>, !.secrets = <<>> ]

DefaultOptions == [IncludePods |-> TRUE, IncludeConfigs |-> TRUE, IncludeStorage |-> TRUE]

---------------------------------------------------------------------------
(* The environment: the cluster changing under the mapper *)

NoGraph ==
    [Dataset |-> ZeroDataset, Runtime |-> <<>>, Resources |-> <<>>, Warnings |-> <<>>,
     Metadata |-> [MappedAt |-> 0, ClusterName |-> "", Version |-> ""]]

Init ==
    /\ client \in {EmptyCluster} \cup {MockClient(sc) : sc \in MockScenarios}
    /\ opts = DefaultOptions
    /\ now = Day
    /\ edits = 0
    /\ pc = "idle"
    /\ graph = NoGraph
    /\ err = <<>>
    /\ calls = <<>>

\* An environment step replaces the cluster and is counted.
Edit(c) ==
    /\ pc = "idle"
    /\ edits < MaxEdits
    /\ c # client
    /\ client' = c
    /\ edits' = edits + 1
    /\ UNCHANGED <<opts, now, pc, graph, err, calls>>

DatasetPhases == {<<>>, <<"Bound">>, <<"NotBound">>, <<"Pending">>, <<"Failed">>}

UpdateDataset ==
    \/ \E p \in DatasetPhases : Edit([client EXCEPT !.dataset.phase = p])
    \/ \E rts \in {<<>>, <<RuntimeTypeJuiceFS>>, <<RuntimeTypeThin, RuntimeTypeAlluxio>>} :
            Edit([client EXCEPT !.dataset.runtimes = rts])

DeleteDataset == Edit([client EXCEPT !.dataset.exists = FALSE])

CreateRuntime == \E t \in RuntimeTypes : Edit([client EXCEPT !.runtimes = @ \cup {t}])

DeleteRuntime == \E t \in RuntimeTypes : Edit([client EXCEPT !.runtimes = @ \ {t}])

Names(objs) == {objs[i].name : i \in 1 .. Len(objs)}

Remove(objs, i) == SubSeq(objs, 1, i - 1) \o SubSeq(objs, i + 1, Len(objs))

StsNames == {MasterName, WorkerName, MasterName \o <<"-x">>}
Roles ==
    { <<"alluxio-", "master">>, <<"alluxio-", "worker">>, <<"alluxio-", "fuse">>,
      <<"web", "master", "-proxy">>, <<"metadata">>, <<>> }

CreateStatefulSet ==
    \E name \in StsNames \ Names(client.statefulSets), role \in Roles :
        Edit([client EXCEPT !.statefulSets =
                 Append(@, createMockStatefulSet(name, role, 1, 1))])

UpdateStatefulSet ==
    \E i \in 1 .. Len(client.statefulSets) :
        \/ \E r \in {<<>>, <<0>>, <<1>>} : Edit([client EXCEPT !.statefulSets[i].replicas = r])
        \/ \E r \in 0 .. 1 : Edit([client EXCEPT !.statefulSets[i].readyReplicas = r])
        \/ \E refs \in {<<>>, <<[kind |-> "Deployment", name |-> <<"helm">>]>>} :
               Edit([client EXCEPT !.statefulSets[i].ownerReferences = refs])

DeleteStatefulSet ==
    \E i \in 1 .. Len(client.statefulSets) :
        Edit([client EXCEPT !.statefulSets = Remove(@, i)])

CreateDaemonSet ==
    \E name \in {FuseName, FuseName \o <<"-x">>} \ Names(client.daemonSets) :
        Edit([client EXCEPT !.daemonSets =
                 Append(@, createMockDaemonSet(name, <<"alluxio-", "fuse">>, 1, 1))])

UpdateDaemonSet ==
    \E i \in 1 .. Len(client.daemonSets) :
        \/ \E r \in 0 .. 1 : Edit([client EXCEPT !.daemonSets[i].numberReady = r])
        \/ \E refs \in {<<>>, <<[kind |-> "Deployment", name |-> <<"helm">>]>>} :
               Edit([client EXCEPT !.daemonSets[i].ownerReferences = refs])

DeleteDaemonSet ==
    \E i \in 1 .. Len(client.daemonSets) :
        Edit([client EXCEPT !.daemonSets = Remove(@, i)])

PodPhases == {"Running", "Pending", "Succeeded", "Failed", "Unknown"}
PodNames ==
    { MasterName \o <<"-0">>, MasterName \o <<"-x">> \o <<"-0">>, WorkerName \o <<"-9">>,
      <<"other">> \o <<"-master">> \o <<"-0">>, MasterName }

CreatePod ==
    \E name \in PodNames \ Names(client.pods), phase \in {"Running", "Failed"} :
        Edit([client EXCEPT !.pods =
                 Append(@, createMockPod(name, <<"alluxio-", "master">>, phase))])

UpdatePod ==
    \E i \in 1 .. Len(client.pods) :
        \/ \E phase \in PodPhases : Edit([client EXCEPT !.pods[i].phase = phase])
        \/ \E release \in {<<>>, <<"other">>} :
               Edit([client EXCEPT !.pods[i].labels.release = release])
        \/ \E owner \in StsNames :
               Edit([client EXCEPT !.pods[i].ownerReferences =
                        <<[kind |-> "StatefulSet", name |-> owner]>>])

DeletePod ==
    \E i \in 1 .. Len(client.pods) : Edit([client EXCEPT !.pods = Remove(@, i)])

PVCPhases == {"Bound", "Pending", "Lost"}
PVPhases  == {"Bound", "Available", "Released", "Failed", "Pending"}

CreatePVC ==
    \E name \in {DatasetName, DatasetName \o <<"-x">>} \ Names(client.persistentVolumeClaims),
       bound \in BOOLEAN :
        Edit([client EXCEPT !.persistentVolumeClaims =
                 Append(@, IF bound THEN createMockPVC(name)
                           ELSE [createMockPVC(name) EXCEPT !.phase = "Pending",
                                                            !.volumeName = <<>>])])

UpdatePVC ==
    \E i \in 1 .. Len(client.persistentVolumeClaims) :
        \/ \E phase \in PVCPhases :
               Edit([client EXCEPT !.persistentVolumeClaims[i].phase = phase])
        \/ Edit([client EXCEPT !.persistentVolumeClaims[i].volumeName = <<>>])

CreatePV ==
    \E name \in {DatasetName \o <<"-pv">>, DatasetName \o <<"-x">> \o <<"-pv">>}
                  \ Names(client.persistentVolumes) :
        Edit([client EXCEPT !.persistentVolumes = Append(@, createMockPV(name))])

UpdatePV ==
    \E i \in 1 .. Len(client.persistentVolumes), phase \in PVPhases :
        Edit([client EXCEPT !.persistentVolumes[i].phase = phase])

DeletePV ==
    \E i \in 1 .. Len(client.persistentVolumes) :
        Edit([client EXCEPT !.persistentVolumes = Remove(@, i)])

CreateConfigMap ==
    \E data \in {<<>>, <<"k=v1">>, <<"k=v2">>} :
        /\ DatasetName \o <<"-x">> \notin Names(client.configMaps)
        /\ Edit([client EXCEPT !.configMaps =
                    Append(@, [createMockConfigMap(DatasetName \o <<"-x">>)
                                  EXCEPT !.data = data])])

CreateSecret ==
    \E data \in {<<>>, <<"token=s1">>, <<"token=s2">>}, type \in {"Opaque", "kubernetes.io/tls"} :
        /\ DatasetName \o <<"-x">> \notin Names(client.secrets)
        /\ Edit([client EXCEPT !.secrets =
                    Append(@, [createMockSecret(DatasetName \o <<"-x">>)
                                  EXCEPT !.data = data, !.type = type])])

\* A kind of call becomes unreachable.
FailOp == \E op \in ClientOps : Edit([client EXCEPT !.failing = @ \cup {op}])

\* The context of the call is cancelled after n calls.
CancelAfter == \E n \in 0 .. MaxCancelAfter : Edit([client EXCEPT !.cancelAfter = <<n>>])

SetOptions ==
    \E o \in [IncludePods : BOOLEAN, IncludeConfigs : BOOLEAN, IncludeStorage : BOOLEAN] :
        /\ pc = "idle"
        /\ edits < MaxEdits
        /\ o # opts
        /\ opts' = o
        /\ edits' = edits + 1
        /\ UNCHANGED <<client, now, pc, graph, err, calls>>

\* Time passes before the call.
Tick ==
    \E d \in {30, Hour} :
        /\ pc = "idle"
        /\ edits < MaxEdits
        /\ now' = now + d
        /\ edits' = edits + 1
        /\ UNCHANGED <<client, opts, pc, graph, err, calls>>

Environment ==
    \/ UpdateDataset \/ DeleteDataset \/ CreateRuntime \/ DeleteRuntime
    \/ CreateStatefulSet \/ UpdateStatefulSet \/ DeleteStatefulSet
    \/ CreateDaemonSet \/ UpdateDaemonSet \/ DeleteDaemonSet
    \/ CreatePod \/ UpdatePod \/ DeletePod
    \/ CreatePVC \/ UpdatePVC \/ CreatePV \/ UpdatePV \/ DeletePV
    \/ CreateConfigMap \/ CreateSecret
    \/ FailOp \/ CancelAfter \/ SetOptions \/ Tick

---------------------------------------------------------------------------
(* The operations *)

\* One call MapFromDataset(ctx, name, namespace, opts): it returns, or the
\* process dies of a nil dereference.
MapFromDatasetCall ==
    /\ pc = "idle"
    /\ LET out == MapFromDataset(client, DatasetName, Namespace, opts) IN
        /\ pc' = IF out.panic THEN "panic" ELSE "returned"
        /\ graph' = out.graph
        /\ err' = out.err
        /\ calls' = out.calls
    /\ UNCHANGED <<client, opts, now, edits>>

Next == Environment \/ MapFromDatasetCall

Spec == Init /\ [][Next]_vars

\* detectWarnings(graph, runtime) on its own: the graph holds what discovery
\* finds in the cluster, the runtime is nil or a RuntimeNode of any type, as
\* parseRuntime builds it.
RuntimeNodes ==
    {<<>>} \cup {<<parseRuntime([name |-> DatasetName, namespace |-> Namespace], t)>> :
                    t \in RuntimeTypes}

DetectWarningsCall ==
    /\ pc = "idle"
    /\ ~discoverResources(client, 0, DatasetName, opts).panic
    /\ \E runtime \in RuntimeNodes :
          graph' = [NewGraph(client) EXCEPT
                       !.Runtime = runtime,
                       !.Resources = discoverResources(client, 0, DatasetName, opts).resources,
                       !.Warnings =
                           detectWarnings(
                               [NewGraph(client) EXCEPT
                                   !.Resources =
                                       discoverResources(client, 0, DatasetName, opts).resources],
                               runtime)]
    /\ pc' = "detected"
    /\ calls' = discoverResources(client, 0, DatasetName, opts).calls
    /\ UNCHANGED <<client, opts, now, edits, err>>

NextDetect == Environment \/ DetectWarningsCall

SpecDetect == Init /\ [][NextDetect]_vars

\* Time passes after a call returned, the cluster staying as it is.
Elapse ==
    /\ pc = "returned"
    /\ \E d \in {Minute, Hour} : now' = now + d
    /\ pc' = "waiting"
    /\ UNCHANGED <<client, opts, edits, graph, err, calls>>

\* A second call MapFromDataset(ctx, name, namespace, opts) with the same
\* arguments against the unchanged cluster.
MapFromDatasetAgain ==
    /\ pc = "waiting"
    /\ LET out == MapFromDataset(client, DatasetName, Namespace, opts) IN
        /\ pc' = IF out.panic THEN "panic" ELSE "again"
        /\ graph' = out.graph
        /\ err' = out.err
        /\ calls' = out.calls
    /\ UNCHANGED <<client, opts, now, edits>>

NextTwice == Next \/ Elapse \/ MapFromDatasetAgain

SpecTwice == Init /\ [][NextTwice]_vars

---------------------------------------------------------------------------
(* Vocabulary of the properties *)

Returned == pc = "returned"

\* The Dataset fetch of the last call failed: not found, or unreachable.
DatasetFetchFailed == ~client.dataset.exists \/ Fails(client, "GetDataset", 0)

\* The i-th Client call of the last call failed.
CallFailed(i) ==
    \/ Fails(client, calls[i].op, i - 1)
    \/ (calls[i].op = "GetRuntime" /\ resolveRuntimeType \notin client.runtimes)
    \/ (calls[i].op = "GetPV" /\ calls[i].arg \notin Names(client.persistentVolumes))

CalledOps == {calls[i].op : i \in 1 .. Len(calls)}

DiscoveryOps == ClientOps \ {"GetDataset", "GetRuntime"}

\* Every list and fetch call of discovery succeeded.
DiscoverySucceeded ==
    \A i \in 1 .. Len(calls) : calls[i].op \in DiscoveryOps => ~CallFailed(i)

WarningsWith(code) == SelectSeq(graph.Warnings, LAMBDA w : w.Code = code)

Unready(r) == r.Status.Phase \in {PhaseNotReady, PhaseFailed}

\* The nodes of the graph: the flat list and the children under it.
TopNodes == {graph.Resources[i] : i \in 1 .. Len(graph.Resources)}
ChildNodes ==
    UNION {{r.Children[j] : j \in 1 .. Len(r.Children)} : r \in TopNodes}
AllNodes == TopNodes \cup ChildNodes

---------------------------------------------------------------------------
(* Properties *)

\* C1: when the Dataset fetch fails, MapFromDataset returns at once with a
\* graph and no error; the warnings are exactly one DATASET_NOT_FOUND at
\* level error, the graph has no Runtime and no resources, and GetDataset is
\* the only Client call made.
C1_DatasetFailureShortCircuits ==
    (pc \in {"returned", "panic"} /\ DatasetFetchFailed) =>
        /\ pc = "returned"
        /\ err = <<>>
        /\ Len(graph.Warnings) = 1
        /\ graph.Warnings[1].Code = WarningCodes.DatasetNotFound
        /\ graph.Warnings[1].Level = WarningLevelError
        /\ graph.Runtime = <<>>
        /\ graph.Resources = <<>>
        /\ calls = <<Call("GetDataset", DatasetName)>>

\* The Dataset fetch failed in a cluster that holds a Runtime and workloads
\* the later stages would have found.
C1_Witness ==
    /\ Returned /\ DatasetFetchFailed
    /\ RuntimeTypeAlluxio \in client.runtimes
    /\ Len(client.statefulSets) > 0
    /\ Len(graph.Warnings) = 1

\* C2: for every graph MapFromDataset returns, IsHealthy() is true exactly
\* when no warning of the graph has level error.
C2_HealthyIffNoError ==
    Returned =>
        (IsHealthy(graph) <=>
            \A i \in 1 .. Len(graph.Warnings) : graph.Warnings[i].Level # WarningLevelError)

\* An unhealthy graph whose first warning is not the error, and so one where
\* the loop of IsHealthy has to go past a warning.
C2_Witness ==
    /\ Returned
    /\ ~IsHealthy(graph)
    /\ Len(graph.Warnings) >= 2
    /\ graph.Warnings[1].Level = WarningLevelWarning

\* A healthy graph that carries warnings.
C2_WitnessHealthy == Returned /\ IsHealthy(graph) /\ HasWarnings(graph)

\* C3: for a Runtime type whose component matrix marks a component absent,
\* detectWarnings never emits the MISSING warning of that component, whatever
\* resources were discovered.
C3_NoMissingForAbsentComponent ==
    (pc = "detected" /\ graph.Runtime # <<>>) =>
        /\ ~GetRuntimeComponents(graph.Runtime[1].Type).HasMaster
               => WarningsWith(WarningCodes.MasterMissing) = <<>>
        /\ ~GetRuntimeComponents(graph.Runtime[1].Type).HasWorker
               => WarningsWith(WarningCodes.WorkerMissing) = <<>>
        /\ ~GetRuntimeComponents(graph.Runtime[1].Type).HasFuse
               => WarningsWith(WarningCodes.FuseMissing) = <<>>

\* The rule of one component: with the Runtime resolved and expecting the
\* component, no node of it means exactly one warning of that code and
\* level; a node of it, or no Runtime, means none.
MissingRule(component, expected, code, level) ==
    /\ (graph.Runtime # <<>> /\ expected /\ GetResourcesByComponent(graph, component) = <<>>)
           => /\ Len(WarningsWith(code)) = 1
              /\ WarningsWith(code)[1].Level = level
    /\ (graph.Runtime = <<>> \/ GetResourcesByComponent(graph, component) # <<>>)
           => WarningsWith(code) = <<>>

Expects == GetRuntimeComponents(IF graph.Runtime = <<>> THEN "" ELSE graph.Runtime[1].Type)

\* C4: in every returned graph each of MASTER_MISSING (error), WORKER_MISSING
\* (error) and FUSE_MISSING (warning) is present exactly once when the
\* Runtime is resolved, expects the component and the flat list has no node
\* of it, and absent when a node of it is present or no Runtime was resolved;
\* each rule is decided alone.
C4_MissingRules ==
    Returned =>
        /\ MissingRule(ComponentMaster, Expects.HasMaster,
                       WarningCodes.MasterMissing, WarningLevelError)
        /\ MissingRule(ComponentWorker, Expects.HasWorker,
                       WarningCodes.WorkerMissing, WarningLevelError)
        /\ MissingRule(ComponentFuse, Expects.HasFuse,
                       WarningCodes.FuseMissing, WarningLevelWarning)

\* Master and fuse are missing while a worker is present: two rules fire and
\* the third does not.
C4_Witness ==
    /\ Returned /\ graph.Runtime # <<>>
    /\ GetResourcesByComponent(graph, ComponentMaster) = <<>>
    /\ GetResourcesByComponent(graph, ComponentWorker) # <<>>
    /\ GetResourcesByComponent(graph, ComponentFuse) = <<>>
    /\ Len(WarningsWith(WarningCodes.MasterMissing)) = 1
    /\ Len(WarningsWith(WarningCodes.FuseMissing)) = 1

C5_WitnessEmptyPhase ==
    Returned /\ ~DatasetFetchFailed /\ graph.Dataset.Phase = "" /\ graph.Runtime = <<>>

\* The Runtime fetch of the last call was issued and failed.
RuntimeFetchFailed ==
    \E i \in 1 .. Len(calls) : calls[i].op = "GetRuntime" /\ CallFailed(i)

\* The warnings are one RUNTIME_NOT_BOUND at level warning, then one
\* PODS_NOT_READY at level warning for each resource of the flat list whose
\* phase is NotReady or Failed, in the order of the list, and nothing else.
NotBoundThenNotReady ==
    LET unready == SelectSeq(graph.Resources, Unready) IN
    /\ Len(graph.Warnings) = 1 + Len(unready)
    /\ graph.Warnings[1].Code = WarningCodes.RuntimeNotBound
    /\ graph.Warnings[1].Level = WarningLevelWarning
    /\ \A i \in 1 .. Len(unready) :
           /\ graph.Warnings[i + 1].Code = WarningCodes.PodsNotReady
           /\ graph.Warnings[i + 1].Level = WarningLevelWarning
           /\ graph.Warnings[i + 1].Resource = unready[i].Name

\* C6: when the Dataset's phase is NotBound and every discovery call
\* succeeds, the returned graph has no Runtime and its warnings are empty.
C6_NotBoundNoWarnings ==
    (Returned /\ ~DatasetFetchFailed /\ graph.Dataset.Phase = "NotBound"
        /\ DiscoverySucceeded) =>
        /\ graph.Runtime = <<>>
        /\ graph.Warnings = <<>>

\* C7 as stated: when the Dataset is Bound, the Runtime fetch fails and every
\* discovery call succeeds, the only warning of the returned graph is
\* RUNTIME_NOT_BOUND at level warning, whatever resources are discovered.
C7_RuntimeNotBoundOnly ==
    (Returned /\ graph.Dataset.Phase = "Bound" /\ RuntimeFetchFailed
        /\ DiscoverySucceeded) =>
        /\ Len(graph.Warnings) = 1
        /\ graph.Warnings[1].Code = WarningCodes.RuntimeNotBound
        /\ graph.Warnings[1].Level = WarningLevelWarning

\* C7 amended: when the Dataset is Bound, the Runtime fetch fails and every
\* discovery call succeeds, the warnings are RUNTIME_NOT_BOUND at level
\* warning followed by one PODS_NOT_READY for each top-level resource whose
\* phase is NotReady or Failed; no MISSING or other warning accompanies them,
\* whatever resources are discovered.
C7_RuntimeNotBoundAndNotReadyOnly ==
    (Returned /\ graph.Dataset.Phase = "Bound" /\ RuntimeFetchFailed
        /\ DiscoverySucceeded) =>
        /\ graph.Runtime = <<>>
        /\ NotBoundThenNotReady

\* The Runtime is gone from under a Bound Dataset whose worker set is under
\* its desired count: both warnings appear, and no MISSING one although a
\* component may be absent.
C7_Witness ==
    /\ Returned /\ graph.Dataset.Phase = "Bound" /\ RuntimeFetchFailed
    /\ DiscoverySucceeded
    /\ Len(graph.Warnings) = 2
    /\ graph.Warnings[2].Code = WarningCodes.PodsNotReady

\* The Runtime fetch failed and no fuse node was discovered.
C7_WitnessMissingComponent ==
    /\ Returned /\ graph.Dataset.Phase = "Bound" /\ RuntimeFetchFailed
    /\ DiscoverySucceeded
    /\ GetResourcesByComponent(graph, ComponentFuse) = <<>>
    /\ Len(graph.Warnings) = 1

\* The conditions of the healthy row: Dataset Bound, Runtime resolved, every
\* call succeeded, a node of each component, every workload set at its
\* desired count, every claim Bound.
HealthyConditions ==
    /\ Returned
    /\ graph.Dataset.Phase = "Bound"
    /\ graph.Runtime # <<>>
    /\ \A i \in 1 .. Len(calls) : ~CallFailed(i)
    /\ GetResourcesByComponent(graph, ComponentMaster) # <<>>
    /\ GetResourcesByComponent(graph, ComponentWorker) # <<>>
    /\ GetResourcesByComponent(graph, ComponentFuse) # <<>>
    /\ \A i \in 1 .. Len(client.statefulSets) :
           client.statefulSets[i].replicas = <<client.statefulSets[i].readyReplicas>>
    /\ \A i \in 1 .. Len(client.daemonSets) :
           client.daemonSets[i].numberReady = client.daemonSets[i].desiredNumberScheduled
    /\ \A i \in 1 .. Len(client.persistentVolumeClaims) :
           client.persistentVolumeClaims[i].phase = "Bound"

\* C8 as stated: under the conditions of the healthy row the returned graph
\* has zero warnings and IsHealthy() is true.
C8_HealthyNoWarnings ==
    HealthyConditions => (graph.Warnings = <<>> /\ IsHealthy(graph))

\* No volume fetched for a claim reports the phase Failed.
NoFailedVolume ==
    \A r \in TopNodes : r.Kind = "PersistentVolume" => ~Unready(r)

\* C8 amended: under the conditions of the healthy row, and when no fetched
\* volume is in phase Failed, the returned graph has zero warnings and
\* IsHealthy() is true.
C8_HealthyNoWarningsUnlessVolumeFailed ==
    (HealthyConditions /\ NoFailedVolume) =>
        (graph.Warnings = <<>> /\ IsHealthy(graph))

\* The healthy scenario of the mock client: nine resources, no warning.
C8_Witness ==
    /\ HealthyConditions /\ NoFailedVolume
    /\ Len(graph.Resources) = 9
    /\ \E r \in TopNodes : r.Kind = "PersistentVolume"
    /\ graph.Warnings = <<>>

\* C9: every node of the returned graph, top-level resource or pod nested
\* under a workload set, whose phase is NotReady or Failed is named by a
\* PODS_NOT_READY warning at level warning.
C9_EveryUnreadyNodeWarned ==
    Returned =>
        \A r \in AllNodes :
            Unready(r) =>
                \E i \in 1 .. Len(graph.Warnings) :
                    /\ graph.Warnings[i].Code = WarningCodes.PodsNotReady
                    /\ graph.Warnings[i].Level = WarningLevelWarning
                    /\ graph.Warnings[i].Resource = r.Name

\* The owner kinds the operator's Runtime controllers set.
KnownRuntimeKinds ==
    {"AlluxioRuntime", "JindoRuntime", "JuiceFSRuntime", "GooseFSRuntime",
     "ThinRuntime", "VineyardRuntime", "EFCRuntime"}

Orphaned(r) ==
    \E i \in 1 .. Len(graph.Warnings) :
        /\ graph.Warnings[i].Code = WarningCodes.OrphanedResource
        /\ graph.Warnings[i].Resource = r.Name

\* C10: every discovered node that carries the release label and whose owner
\* reference kind is not a known Runtime kind is named by an
\* ORPHANED_RESOURCE warning at level warning, and a node with no owner
\* reference and no release label is never named by one.
C10_OrphansFlagged ==
    Returned =>
        \A r \in AllNodes :
            /\ (r.Labels.release # <<>> /\ r.Owner # <<>>
                    /\ r.Owner[1].Kind \notin KnownRuntimeKinds)
                   => \E i \in 1 .. Len(graph.Warnings) :
                          /\ graph.Warnings[i].Code = WarningCodes.OrphanedResource
                          /\ graph.Warnings[i].Level = WarningLevelWarning
                          /\ graph.Warnings[i].Resource = r.Name
            /\ (r.Labels.release = <<>> /\ r.Owner = <<>>) => ~Orphaned(r)

\* C11: for every discovered claim whose phase is not Bound, the warnings of
\* the returned graph contain a PV_NOT_BOUND warning at level warning.
C11_UnboundClaimWarned ==
    Returned =>
        \A r \in TopNodes :
            (r.Kind = "PersistentVolumeClaim" /\ r.Status.Phase # PhaseBound) =>
                \E i \in 1 .. Len(graph.Warnings) :
                    /\ graph.Warnings[i].Code = WarningCodes.PVNotBound
                    /\ graph.Warnings[i].Level = WarningLevelWarning

\* The listings of discoverResources, one per resource kind.
ListOps ==
    {"ListStatefulSets", "ListDaemonSets", "ListPVCs", "ListConfigMaps", "ListSecrets"}

\* The cluster c with every failing listing answering an empty list instead.
EmptyInsteadOfFailing(c) ==
    [c EXCEPT
        !.failing = @ \ ListOps,
        !.statefulSets = IF "ListStatefulSets" \in c.failing THEN <<>> ELSE @,
        !.daemonSets = IF "ListDaemonSets" \in c.failing THEN <<>> ELSE @,
        !.persistentVolumeClaims = IF "ListPVCs" \in c.failing THEN <<>> ELSE @,
        !.configMaps = IF "ListConfigMaps" \in c.failing THEN <<>> ELSE @,
        !.secrets = IF "ListSecrets" \in c.failing THEN <<>> ELSE @]

\* C12: when the listing of one resource kind fails, discovery of every other
\* kind still runs (the same calls are made) and the nodes of the graph are
\* exactly those it would hold had the failing listing returned an empty
\* list.
C12_FailedListingLeavesOthers ==
    (Returned /\ client.cancelAfter = <<>> /\ client.failing \cap ListOps # {}) =>
        /\ ~MapFromDataset(EmptyInsteadOfFailing(client), DatasetName, Namespace, opts).panic
        /\ graph.Resources =
               MapFromDataset(EmptyInsteadOfFailing(client), DatasetName, Namespace,
                              opts).graph.Resources
        /\ calls = MapFromDataset(EmptyInsteadOfFailing(client), DatasetName, Namespace,
                                  opts).calls

\* The StatefulSet listing failed in a cluster that has StatefulSets, and the
\* graph holds the DaemonSet, storage and config nodes all the same.
C12_Witness ==
    /\ Returned /\ client.cancelAfter = <<>>
    /\ "ListStatefulSets" \in client.failing
    /\ Len(client.statefulSets) > 0
    /\ \E r \in TopNodes : r.Kind = "DaemonSet"
    /\ \E r \in TopNodes : r.Kind = "PersistentVolume"
    /\ \E r \in TopNodes : r.Kind = "Secret"

\* The codes detectWarnings and the pipeline use; a fetch-failure code is
\* none of them.
DetectionCodes ==
    { WarningCodes.DatasetNotFound, WarningCodes.RuntimeNotBound,
      WarningCodes.MasterMissing, WarningCodes.WorkerMissing, WarningCodes.FuseMissing,
      WarningCodes.PodsNotReady, WarningCodes.PVNotBound, WarningCodes.OrphanedResource }

\* The code each listing's failure is reported under.
ListFailedCode ==
    [ ListStatefulSets |-> "STS_LIST_FAILED", ListDaemonSets |-> "DS_LIST_FAILED",
      ListPVCs |-> "PVC_LIST_FAILED", ListConfigMaps |-> "CM_LIST_FAILED",
      ListSecrets |-> "SECRET_LIST_FAILED" ]

\* A code specific to the kind op reads: the listing's own code, and for pod
\* listings and volume fetches any code that is no other kind's.
SpecificTo(op, code) ==
    IF op \in ListOps
    THEN code = ListFailedCode[op]
    ELSE /\ code \notin DetectionCodes
         /\ code \notin {ListFailedCode[o] : o \in ListOps}

\* C13: every list or fetch failure during discovery, a failed pod listing
\* and a failed volume fetch included, is reported by a warning at level
\* warning with a code specific to the failing kind.
C13_NoFailureDropped ==
    Returned =>
        \A i \in 1 .. Len(calls) :
            (calls[i].op \in DiscoveryOps /\ CallFailed(i)) =>
                \E w \in 1 .. Len(graph.Warnings) :
                    /\ graph.Warnings[w].Level = WarningLevelWarning
                    /\ SpecificTo(calls[i].op, graph.Warnings[w].Code)

\* The place of a kind in the discovery order.
CategoryRank(kind) ==
    CASE kind = "StatefulSet" -> 1
      [] kind = "DaemonSet" -> 2
      [] kind \in {"PersistentVolumeClaim", "PersistentVolume"} -> 3
      [] kind \in {"ConfigMap", "Secret"} -> 4
      [] OTHER -> 0

\* The names of the top-level nodes of one kind, in the order of the list.
NamesOfKind(kind) ==
    LET nodes == SelectSeq(graph.Resources, LAMBDA r : r.Kind = kind)
    IN [i \in 1 .. Len(nodes) |-> nodes[i].Name]

\* The listing op was made by the last call and succeeded.
Listed(op) == \E i \in 1 .. Len(calls) : calls[i].op = op /\ ~CallFailed(i)

\* The names of the objects a listing returned, none when it was not made or
\* failed.
Returned_Names(op, objs) ==
    IF Listed(op) THEN [i \in 1 .. Len(objs) |-> objs[i].name] ELSE <<>>

\* C14: in every returned graph the flat resource list holds all StatefulSet
\* nodes, then all DaemonSet nodes, then all storage nodes, then all
\* configuration nodes, and within a category the nodes follow the order in
\* which the Client returned the objects (a volume right after its claim,
\* config maps before secrets).
C14_OrderedByCategory ==
    Returned =>
        /\ \A i, j \in 1 .. Len(graph.Resources) :
               i < j => /\ CategoryRank(graph.Resources[i].Kind) >= 1
                        /\ CategoryRank(graph.Resources[i].Kind)
                               <= CategoryRank(graph.Resources[j].Kind)
        /\ NamesOfKind("StatefulSet") = Returned_Names("ListStatefulSets", client.statefulSets)
        /\ NamesOfKind("DaemonSet") = Returned_Names("ListDaemonSets", client.daemonSets)
        /\ NamesOfKind("PersistentVolumeClaim")
               = Returned_Names("ListPVCs", client.persistentVolumeClaims)
        /\ NamesOfKind("ConfigMap") = Returned_Names("ListConfigMaps", client.configMaps)
        /\ NamesOfKind("Secret") = Returned_Names("ListSecrets", client.secrets)
        /\ \A i \in 1 .. Len(graph.Resources) :
               /\ graph.Resources[i].Kind = "PersistentVolume"
                      => /\ i > 1
                         /\ graph.Resources[i - 1].Kind = "PersistentVolumeClaim"
                         /\ graph.Resources[i - 1].Details.volumeName
                                = graph.Resources[i].Name
               /\ graph.Resources[i].Kind = "Secret"
                      => \A j \in 1 .. Len(graph.Resources) :
                             graph.Resources[j].Kind = "ConfigMap" => j < i

\* A graph with two StatefulSets, a DaemonSet, a claim with its volume,
\* config maps and a secret.
C14_Witness ==
    /\ Returned
    /\ Len(NamesOfKind("StatefulSet")) >= 2
    /\ Len(NamesOfKind("DaemonSet")) >= 1
    /\ Len(NamesOfKind("PersistentVolume")) >= 1
    /\ Len(NamesOfKind("ConfigMap")) >= 2
    /\ Len(NamesOfKind("Secret")) >= 1

\* C15: in every returned graph no top-level entry of the flat list has kind
\* Pod, only workload-set nodes have children, every child is a Pod, and no
\* child has children of its own.
C15_PodsNestedOnce ==
    Returned =>
        \A r \in TopNodes :
            /\ r.Kind # "Pod"
            /\ r.Children # <<>> => r.Kind \in {"StatefulSet", "DaemonSet"}
            /\ \A j \in 1 .. Len(r.Children) :
                   /\ r.Children[j].Kind = "Pod"
                   /\ r.Children[j].Children = <<>>

\* A workload set with two pods under it, next to nodes of other kinds.
C15_Witness ==
    /\ Returned
    /\ \E r \in TopNodes : r.Kind = "StatefulSet" /\ Len(r.Children) >= 2
    /\ \E r \in TopNodes : r.Kind = "DaemonSet" /\ r.Children = <<>>

\* C16: in every returned graph each pod is a child of at most one
\* workload-set node, whatever names and owner references the Client
\* returned.
C16_OneParentPerPod ==
    Returned =>
        \A i, j \in 1 .. Len(graph.Resources) :
            i # j =>
                \A a \in 1 .. Len(graph.Resources[i].Children),
                   b \in 1 .. Len(graph.Resources[j].Children) :
                    graph.Resources[i].Children[a].Name # graph.Resources[j].Children[b].Name

\* The graphs g and h are equal in every field except metadata.mappedAt
\* (metadata.duration is not part of the model's graph).
EqualButTimestamps(g, h) ==
    [g EXCEPT !.Metadata.MappedAt = 0] = [h EXCEPT !.Metadata.MappedAt = 0]

\* C17: a second call of MapFromDataset with the same arguments against
\* unchanged Client data returns a graph equal to the first in every field
\* except metadata.mappedAt and metadata.duration, the age of every node
\* included.
C17_SecondCallSameGraph ==
    [][(pc = "waiting" /\ pc' = "again") => EqualButTimestamps(graph, graph')]_vars

\* C18: for a Bound Dataset that reports bound runtimes, the Runtime fetch is
\* issued with the type of the first entry and the Dataset's name, and the
\* Runtime recorded in the graph has that type.
C18_RuntimeTypeFromDataset ==
    (Returned /\ ~DatasetFetchFailed /\ graph.Dataset.Phase = "Bound"
        /\ client.dataset.runtimes # <<>>) =>
        /\ \A i \in 1 .. Len(calls) :
               calls[i].op = "GetRuntime" =>
                   calls[i].arg = <<getRuntimeTypeFromDataset(client.dataset)>> \o DatasetName
        /\ graph.Runtime # <<>> =>
               graph.Runtime[1].Type = getRuntimeTypeFromDataset(client.dataset)

\* C19: malformed or partially populated objects never abort a mapping call:
\* whatever sub-fields the Dataset, the Runtime or a workload set lack (the
\* desired replica count included), MapFromDataset completes without error
\* and without crashing.
C19_MalformedTolerated ==
    /\ pc # "panic"
    /\ Returned => err = <<>>

\* The listings a call with options o makes.
EnabledListOps(o) ==
    {"ListStatefulSets", "ListDaemonSets"}
        \cup (IF o.IncludeStorage THEN {"ListPVCs"} ELSE {})
        \cup (IF o.IncludeConfigs THEN {"ListConfigMaps", "ListSecrets"} ELSE {})

\* What the same call returns when the context is never cancelled.
Uncancelled ==
    MapFromDataset([client EXCEPT !.cancelAfter = <<>>], DatasetName, Namespace, opts)

\* C20: when the context is cancelled after the Dataset was resolved, so that
\* every later read fails, MapFromDataset still returns a graph and no error;
\* the graph holds the nodes of every listing that completed before the
\* cancellation, every listing that did not complete is reported by its
\* warning-level fetch-failure warning, and the cancellation causes no
\* error-level warning (none that the uncancelled call would not report).
C20_CancellationDegrades ==
    (Returned /\ ~DatasetFetchFailed /\ client.cancelAfter # <<>>) =>
        /\ err = <<>>
        /\ NamesOfKind("StatefulSet") = Returned_Names("ListStatefulSets", client.statefulSets)
        /\ NamesOfKind("DaemonSet") = Returned_Names("ListDaemonSets", client.daemonSets)
        /\ NamesOfKind("PersistentVolumeClaim")
               = Returned_Names("ListPVCs", client.persistentVolumeClaims)
        /\ NamesOfKind("ConfigMap") = Returned_Names("ListConfigMaps", client.configMaps)
        /\ NamesOfKind("Secret") = Returned_Names("ListSecrets", client.secrets)
        /\ \A op \in EnabledListOps(opts) :
               ~Listed(op) =>
                   \E w \in 1 .. Len(graph.Warnings) :
                       /\ graph.Warnings[w].Code = ListFailedCode[op]
                       /\ graph.Warnings[w].Level = WarningLevelWarning
        /\ \A w \in 1 .. Len(graph.Warnings) :
               graph.Warnings[w].Level = WarningLevelError =>
                   \E u \in 1 .. Len(Uncancelled.graph.Warnings) :
                       Uncancelled.graph.Warnings[u] = graph.Warnings[w]

\* C21: when the Client itself cannot be reached for the Dataset fetch (as
\* opposed to the Dataset not being found), MapFromDataset returns a non-nil
\* error; when the Dataset is not found it returns a graph and no error, with
\* a warning describing the problem.
C21_TransportFailurePropagates ==
    Returned =>
        /\ Fails(client, "GetDataset", 0) => err # <<>>
        /\ (~Fails(client, "GetDataset", 0) /\ ~client.dataset.exists) =>
               /\ err = <<>>
               /\ WarningsWith(WarningCodes.DatasetNotFound) # <<>>

\* The cluster c with every entry stored in a config map or a secret
\* replaced: same objects, same names, same key counts, same secret types.
Redacted(c) ==
    [c EXCEPT
        !.configMaps = [i \in 1 .. Len(c.configMaps) |->
                           [c.configMaps[i] EXCEPT
                               !.data = [k \in 1 .. Len(c.configMaps[i].data) |-> "***"]]],
        !.secrets = [i \in 1 .. Len(c.secrets) |->
                        [c.secrets[i] EXCEPT
                            !.data = [k \in 1 .. Len(c.secrets[i].data) |-> "***"]]]]

\* C22: the contents of secrets and config maps never influence the returned
\* graph: the cluster with every stored entry replaced yields the identical
\* graph, and the details of a config node hold the key count and, for a
\* secret, the secret type, and nothing else.
C22_ContentsNeverExposed ==
    Returned =>
        /\ graph = MapFromDataset(Redacted(client), DatasetName, Namespace, opts).graph
        /\ \A r \in TopNodes :
               /\ r.Kind = "ConfigMap" =>
                      \E i \in 1 .. Len(client.configMaps) :
                          r.Details = [NoDetails EXCEPT
                                          !.keys = <<ToString(Len(client.configMaps[i].data))>>]
               /\ r.Kind = "Secret" =>
                      \E i \in 1 .. Len(client.secrets) :
                          r.Details = [NoDetails EXCEPT
                                          !.keys = <<ToString(Len(client.secrets[i].data))>>,
                                          !.type = <<client.secrets[i].type>>]

\* A graph with the node of a config map and the node of a secret that both
\* hold an entry.
C22_Witness ==
    /\ Returned
    /\ \E i \in 1 .. Len(client.configMaps) : Len(client.configMaps[i].data) > 0
    /\ \E i \in 1 .. Len(client.secrets) : Len(client.secrets[i].data) > 0
    /\ Redacted(client) # client
    /\ \E r \in TopNodes : r.Kind = "ConfigMap" /\ r.Details.keys = <<"1">>
    /\ \E r \in TopNodes : r.Kind = "Secret" /\ r.Details.keys = <<"1">>

\* The values of types.ResourcePhase.
ResourcePhases ==
    {PhaseReady, PhaseNotReady, PhasePending, PhaseFailed, PhaseUnknown, PhaseBound,
     PhaseNotBound}

\* C23: in every returned graph every node, top-level or nested pod, volume
\* nodes included, has a status phase among Ready, NotReady, Pending, Failed,
\* Unknown, Bound and NotBound, whatever pod and volume phases the Client
\* reports.
C23_PhaseInEnumeration ==
    Returned => \A r \in AllNodes : r.Status.Phase \in ResourcePhases

\* What the same call returns with every option on.
WithAllOptions == MapFromDataset(client, DatasetName, Namespace, DefaultOptions).graph

\* The kinds of node the options o leave out.
GatedKinds(o) ==
    (IF o.IncludeStorage THEN {} ELSE {"PersistentVolumeClaim", "PersistentVolume"})
        \cup (IF o.IncludeConfigs THEN {} ELSE {"ConfigMap", "Secret"})

\* The warnings about the categories the options o leave out: their listing
\* failures, and the readiness warnings naming one of their nodes in g.
GatedWarning(g, o, w) ==
    \/ ~o.IncludeStorage /\ w.Code = "PVC_LIST_FAILED"
    \/ ~o.IncludeConfigs /\ w.Code \in {"CM_LIST_FAILED", "SECRET_LIST_FAILED"}
    \/ /\ w.Code = WarningCodes.PodsNotReady
       /\ \E i \in 1 .. Len(g.Resources) :
              g.Resources[i].Kind \in GatedKinds(o) /\ g.Resources[i].Name = w.Resource

\* The nodes of g the options o keep, without children when pods are off.
GatedResources(g, o) ==
    LET kept == SelectSeq(g.Resources, LAMBDA r : r.Kind \notin GatedKinds(o))
    IN [i \in 1 .. Len(kept) |->
           IF o.IncludePods THEN kept[i] ELSE [kept[i] EXCEPT !.Children = <<>>]]

\* C24: the options gate discovery exactly.  With IncludeStorage false the
\* graph has no claim or volume node and neither ListPVCs nor GetPV is
\* called; with IncludeConfigs false it has no config map or secret node and
\* neither listing is called; with IncludePods false no node has children
\* and ListPods is not called; the nodes and warnings of the other
\* categories are those of the call with every option on.
C24_OptionsGateDiscovery ==
    Returned =>
        /\ ~opts.IncludeStorage => {"ListPVCs", "GetPV"} \cap CalledOps = {}
        /\ ~opts.IncludeConfigs => {"ListConfigMaps", "ListSecrets"} \cap CalledOps = {}
        /\ ~opts.IncludePods => "ListPods" \notin CalledOps
        /\ \A r \in TopNodes :
               /\ r.Kind \notin GatedKinds(opts)
               /\ ~opts.IncludePods => r.Children = <<>>
        /\ client.cancelAfter = <<>> =>
               /\ graph.Resources = GatedResources(WithAllOptions, opts)
               /\ graph.Warnings =
                      SelectSeq(WithAllOptions.Warnings,
                                LAMBDA w : ~GatedWarning(WithAllOptions, opts, w))

\* Storage is switched off in a cluster that holds a claim and its volume,
\* and the graph still holds workload sets with their pods and config nodes.
C24_Witness ==
    /\ Returned /\ client.cancelAfter = <<>>
    /\ ~opts.IncludeStorage /\ opts.IncludeConfigs /\ opts.IncludePods
    /\ Len(client.persistentVolumeClaims) > 0
    /\ \E r \in TopNodes : r.Kind = "StatefulSet" /\ r.Children # <<>>
    /\ \E r \in TopNodes : r.Kind = "Secret"

\* The nodes of one kind in the flat list, in order.
NodesOfKind(kind) == SelectSeq(graph.Resources, LAMBDA r : r.Kind = kind)

\* The phase the readiness rule gives for ready of desired replicas.
ReadinessPhase(ready, desired) == IF ready < desired THEN PhaseNotReady ELSE PhaseReady

\* C25: a StatefulSet or DaemonSet node is NotReady exactly when its ready
\* count is below its desired count and Ready otherwise, 0 of 0 included; a
\* pod node is Ready when the pod is Running and otherwise carries the pod's
\* own phase unchanged.
C25_ReadinessPhases ==
    Returned =>
        /\ LET nodes == NodesOfKind("StatefulSet") IN
           nodes # <<>> =>
               /\ Len(nodes) = Len(client.statefulSets)
               /\ \A i \in 1 .. Len(nodes) :
                      /\ nodes[i].Name = client.statefulSets[i].name
                      /\ nodes[i].Status.Phase =
                             ReadinessPhase(client.statefulSets[i].readyReplicas,
                                            client.statefulSets[i].replicas[1])
        /\ LET nodes == NodesOfKind("DaemonSet") IN
           nodes # <<>> =>
               /\ Len(nodes) = Len(client.daemonSets)
               /\ \A i \in 1 .. Len(nodes) :
                      /\ nodes[i].Name = client.daemonSets[i].name
                      /\ nodes[i].Status.Phase =
                             ReadinessPhase(client.daemonSets[i].numberReady,
                                            client.daemonSets[i].desiredNumberScheduled)
        /\ \A r \in ChildNodes :
               \E i \in 1 .. Len(client.pods) :
                   /\ client.pods[i].name = r.Name
                   /\ r.Status.Phase = IF client.pods[i].phase = "Running"
                                       THEN PhaseReady ELSE client.pods[i].phase

\* A workload set with 0 of 0 replicas is Ready, a DaemonSet is listed, and
\* a pod that is not Running keeps its phase.
C25_Witness ==
    /\ Returned
    /\ \E r \in TopNodes :
           r.Kind = "StatefulSet" /\ r.Status.Ready = SprintfRatio(0, 0)
               /\ r.Status.Phase = PhaseReady
    /\ \E r \in TopNodes : r.Kind = "DaemonSet"
    /\ \E r \in ChildNodes : r.Status.Phase # PhaseReady

\* The pod carries an owner reference naming the workload.
ReferencedBy(pod, workloadName) ==
    \E r \in 1 .. Len(pod.ownerReferences) : pod.ownerReferences[r].name = workloadName

\* strings.HasPrefix(name, prefix)
HasPrefix(name, prefix) ==
    Len(name) >= Len(prefix) /\ SubSeq(name, 1, Len(prefix)) = prefix

\* The position in calls of the pod listing made for the k-th StatefulSet node.
PodListingOf(k) ==
    CHOOSE i \in 1 .. Len(calls) :
        /\ calls[i].op = "ListPods"
        /\ Cardinality({j \in 1 .. i : calls[j].op = "ListPods"}) = k

\* The children of every StatefulSet node whose pod listing succeeded are
\* the listed pods that Attributed(pod, name) selects, in listing order.
ChildrenAre(Attributed(_, _)) ==
    LET nodes == NodesOfKind("StatefulSet") IN
    \A k \in 1 .. Len(nodes) :
        ~CallFailed(PodListingOf(k)) =>
            LET owned == SelectSeq(client.pods, LAMBDA pod : Attributed(pod, nodes[k].Name))
            IN /\ Len(nodes[k].Children) = Len(owned)
               /\ \A j \in 1 .. Len(owned) : nodes[k].Children[j].Name = owned[j].name

VolumeFetch(k) ==
    CHOOSE i \in 1 .. Len(calls) :
        /\ calls[i].op = "GetPV"
        /\ Cardinality({j \in 1 .. i : calls[j].op = "GetPV"}) = k

\* What identifies a storage node: kind, name, namespace and owner.
StorageNode(kind, name, namespace, owner) ==
    [Kind |-> kind, Name |-> name, Namespace |-> namespace, Owner |-> owner]

\* The storage nodes due for the claims from the i-th on, k volume fetches
\* having been made for the claims before: the claim node, followed by the
\* volume node when the claim names a volume and its fetch succeeded.
RECURSIVE StorageNodesFrom(_, _)
StorageNodesFrom(i, k) ==
    IF i > Len(client.persistentVolumeClaims)
    THEN <<>>
    ELSE LET pvc   == client.persistentVolumeClaims[i]
             bound == pvc.volumeName # <<>>
         IN <<StorageNode("PersistentVolumeClaim", pvc.name, Namespace, <<>>)>>
                \o (IF bound /\ ~CallFailed(VolumeFetch(k + 1))
                    THEN <<StorageNode("PersistentVolume", pvc.volumeName, "",
                                       <<[Kind |-> "PersistentVolumeClaim",
                                          Name |-> pvc.name]>>)>>
                    ELSE <<>>)
                \o StorageNodesFrom(i + 1, IF bound THEN k + 1 ELSE k)

\* C27: when the claim listing succeeded, every listed claim yields one
\* claim node; a claim bound to a volume (its volume name is set) causes
\* exactly one GetPV by that name and, when the fetch succeeds, one volume
\* node, cluster-scoped and owned by the claim, right after the claim node;
\* a claim without a bound volume causes no fetch and yields its node only.
C27_ClaimThenVolume ==
    (Returned /\ Listed("ListPVCs")) =>
        /\ LET fetches == SelectSeq(calls, LAMBDA call : call.op = "GetPV")
               bound   == SelectSeq(client.persistentVolumeClaims,
                                    LAMBDA pvc : pvc.volumeName # <<>>)
           IN /\ Len(fetches) = Len(bound)
              /\ \A k \in 1 .. Len(bound) : fetches[k].arg = bound[k].volumeName
        /\ LET nodes == SelectSeq(graph.Resources, LAMBDA r : r.Component = ComponentStorage)
           IN [j \in 1 .. Len(nodes) |->
                  StorageNode(nodes[j].Kind, nodes[j].Name, nodes[j].Namespace, nodes[j].Owner)]
                  = StorageNodesFrom(1, 0)

\* A claim bound to a volume is followed by its volume node, and a claim
\* without a volume stands alone, with a single fetch made.
C27_Witness ==
    /\ Returned /\ Listed("ListPVCs")
    /\ \E i \in 1 .. Len(client.persistentVolumeClaims) :
           client.persistentVolumeClaims[i].volumeName = <<>>
    /\ Cardinality({i \in 1 .. Len(calls) : calls[i].op = "GetPV"}) = 1
    /\ \E j \in 1 .. Len(graph.Resources) - 1 :
           /\ graph.Resources[j].Kind = "PersistentVolumeClaim"
           /\ graph.Resources[j + 1].Kind = "PersistentVolume"
           /\ graph.Resources[j + 1].Owner # <<>>
    /\ Cardinality({j \in 1 .. Len(graph.Resources) :
                        graph.Resources[j].Kind = "PersistentVolumeClaim"}) = 2

ComponentUnknown == "unknown"

\* The component the known role strings give to a role label.
ClassifiedAs(role) ==
    IF \E c \in DOMAIN ComponentRoles : role \in ComponentRoles[c]
    THEN CHOOSE c \in DOMAIN ComponentRoles : role \in ComponentRoles[c]
    ELSE ComponentUnknown

\* C28: a StatefulSet whose role label equals a known "<type>-master",
\* "<type>-worker" or "<type>-fuse" string gets component master, worker or
\* fuse; any other or absent role label gives component unknown, the object
\* is still listed, and every node's component is one of master, worker,
\* fuse, storage, config, unknown.
C28_RoleClassification ==
    (Returned /\ Listed("ListStatefulSets")) =>
        /\ LET nodes == NodesOfKind("StatefulSet") IN
           /\ Len(nodes) = Len(client.statefulSets)
           /\ \A i \in 1 .. Len(nodes) :
                  nodes[i].Component = ClassifiedAs(client.statefulSets[i].labels.role)
        /\ \A r \in AllNodes :
               r.Component \in {ComponentMaster, ComponentWorker, ComponentFuse,
                                ComponentStorage, ComponentConfig, ComponentUnknown}

\* The flat list holds a node of the component.
HasNodeOf(component) == \E r \in TopNodes : r.Component = component

C30_ChildrenOfMappedRelease ==
    Returned => \A r \in ChildNodes : r.Labels.release = DatasetName

====
